---- MODULE Spec2Model ----
(***************************************************************************)
(* Model of the OCPP relay (src/ocpp2mqtt/relay/ocpprelay.py): one         *)
(* charge-point session of OCPPRelay._on_connect with its CSMS             *)
(* connections, the forwarding tasks started by asyncio.gather, and the    *)
(* snoop queue the tasks put MessageData events on.  The coroutines run on *)
(* one asyncio event loop: a coroutine that becomes runnable is appended   *)
(* to the loop's queue and the loop runs the oldest one up to its next     *)
(* suspension.  A send returns without suspending (the transport's write   *)
(* buffer is below its high-water mark).                                   *)
(***************************************************************************)
EXTENDS Naturals, Integers, Sequences, FiniteSets, TLC

\* ------------------------------------------------------------------ bounds
MaxFrames == 3       \* frames the two peers send in one behaviour
MaxConn == 2         \* CSMS connections one session establishes
MaxSessions == 2     \* snoop clients that connect in one behaviour
MaxEvents == 2       \* events put on the snoop queue in one behaviour
MaxCalls == 3        \* events one OCPPFilter is given in one behaviour
MaxRecords == 2      \* records given to the publisher in one behaviour
MaxNotices == 2      \* callbacks of the MQTT client in one behaviour

\* ------------------------------------------------------------------ inputs
NoProtocol == "(none)"   \* the request has no Sec-WebSocket-Protocol header
Paths == {"/CP7", "/CP8/"}
Subprotocols == {"ocpp1.6", NoProtocol}

\* Frame texts a peer may send.
CpTexts == {"[2,7]", "7", "{oops"}
CsmsTexts == {"[3, 8]", "{\"a\": 1}", "{oops"}

Conns == 1 .. MaxConn
Sessions == 1 .. MaxSessions
Dirs == {"CP", "CSMS"}      \* source_name of a forwarding loop

VARIABLES
    path,         \* ws.request.path of the charge-point connection
    subproto,     \* its Sec-WebSocket-Protocol header, or NoProtocol
    hasClosed,    \* whether the connection object exposes a `closed` attribute
    hpc,          \* position of _on_connect
    cpClosed,     \* the charge-point websocket is closed
    cpSent,       \* number of frames the charge point has sent
    cpIn,         \* frames of the charge point not yet returned by recv()
    cpOut,        \* frames written to the charge point by send()
    gen,          \* number of CSMS connections established so far
    csms,         \* state of each CSMS connection
    csmsSent,     \* number of frames the CSMS has sent
    csmsIn,       \* per connection, frames not yet returned by recv()
    csmsOut,      \* frames written to the CSMS by send()
    task,         \* the _relay coroutines, by (connection, source_name)
    ready,        \* the event loop's queue of runnable coroutines, oldest first
    snoop_queue,  \* the asyncio.Queue shared with the snoop server
    emitted       \* every event ever put on snoop_queue, in order

\* The snoop server (src/ocpp2mqtt/relay/snoopws.py).
VARIABLES
    snoop_sockets,  \* SnoopWebSocketServer.snoop_sockets
    sconn,          \* state of each snoop client connection
    spc,            \* position of each snoop connection's _on_connect
    fwd,            \* the _forward_messages task: position and locals
    delivered,      \* per snoop client, the frames send() has written to it
    refused,        \* per snoop client, the events whose send() raised
    regAt           \* per snoop client, the number of events emitted when it registered

\* The OCPP filter (src/ocpp2mqtt/mqtt/ocppfilter.py).
VARIABLES
    manufacturer,   \* OCPPFilter._manufacturer
    filtered        \* the calls of OCPPFilter.filter made so far

\* The MQTT publisher (src/ocpp2mqtt/mqtt/mqttpublish.py) and the coroutine
\* that feeds it (process_messages of src/ocpp2mqtt/ocpp_snoop2mqtt.py).
VARIABLES
    queue,                     \* MQTTPublisher._queue
    exit_task,                 \* MQTTPublisher._exit_task
    connected,                 \* MQTTPublisher._connected
    broker_connection_failed,  \* MQTTPublisher._broker_connection_failed
    published_discoveries,     \* MQTTPublisher._published_discoveries, in insertion order
    run,                       \* position and locals of MQTTPublisher.run
    on_connect,                \* the network thread inside _mqtt_on_connect
    feeder,                    \* position of process_messages
    published,                 \* every call of self._mqtt.publish, in order
    enqueued,                  \* every record given to publish_data, in order
    notices                    \* the callbacks the network thread has begun, in order

relayVars == <<path, subproto, hasClosed, hpc, cpClosed, cpSent, cpIn, cpOut,
               gen, csms, csmsSent, csmsIn, csmsOut, task, ready>>
snoopVars == <<snoop_sockets, sconn, spc, fwd, delivered, refused, regAt>>
filterVars == <<manufacturer, filtered>>
pubVars == <<queue, exit_task, connected, broker_connection_failed, published_discoveries,
             run, on_connect, feeder, published, enqueued, notices>>

vars == <<path, subproto, hasClosed, hpc, cpClosed, cpSent, cpIn, cpOut,
          gen, csms, csmsSent, csmsIn, csmsOut, task, ready,
          snoop_queue, emitted, snoopVars, filterVars, pubVars>>

\* ------------------------------------------------------------- pure parts

\* json.loads: the decoded value, described by its JSON type, its length and
\* its json.dumps text; kind "invalid" stands for json.JSONDecodeError.
Parse(text) ==
    CASE text = "[2,7]"        -> [kind |-> "array",  len |-> 2, dumps |-> "[2, 7]"]
      [] text = "[2, 7]"       -> [kind |-> "array",  len |-> 2, dumps |-> "[2, 7]"]
      [] text = "[3, 8]"       -> [kind |-> "array",  len |-> 2, dumps |-> "[3, 8]"]
      [] text = "[2]"          -> [kind |-> "array",  len |-> 1, dumps |-> "[2]"]
      [] text = "7"            -> [kind |-> "number", len |-> 0, dumps |-> "7"]
      [] text = "{\"a\": 1}"   -> [kind |-> "object", len |-> 1, dumps |-> "{\"a\": 1}"]
      [] OTHER                 -> [kind |-> "invalid", len |-> 0, dumps |-> ""]

\* json_message[1] in the log line after the send: defined for a list (or a
\* string) of at least two elements; a KeyError, IndexError or TypeError
\* otherwise.
HasIndex1(v) == v.kind \in {"array", "string"} /\ v.len >= 2

\* ws.request.path.strip("/")
StripSlashes(p) ==
    CASE p = "/CP7"  -> "CP7"
      [] p = "/CP8/" -> "CP8"
      [] OTHER       -> p

ChargePointId == StripSlashes(path)

\* MessageData(event="Message", sender=..., protocol=..., cp_id=..., payload=...);
\* its timestamp field (the wall clock at construction) is left out.
MessageData(sender, protocol, cp_id, payload) ==
    [event |-> "Message", sender |-> sender, protocol |-> protocol,
     cp_id |-> cp_id, payload |-> payload]

\* getattr(cp_ws, "closed", False)
CpObservedClosed == hasClosed /\ cpClosed

Handler == <<0, "H">>     \* the _on_connect coroutine in the loop's queue
NoTask == [pc |-> "none", n |-> 0, exc |-> ""]

\* The bytes a loop hands to target_ws.send: the received message itself,
\* not json.dumps of the decoded value.
SentBytes_Reserialised(text) == Parse(text).dumps

SentBytes(text) == text

\* A loop calls source_ws.recv(): a second recv() while another coroutine is
\* in recv() on the same connection raises ConcurrencyError.
RecvBusy(t, g, d) ==
    d = "CP" /\ \E h \in Conns : h # g /\ t[<<h, "CP">>].pc \in {"recv", "woken"}

\* A coroutine suspended in recv() is made runnable (a frame arrived or the
\* connection was closed).
WakeRecv(st, k) ==
    IF st.t[k].pc = "recv"
      THEN [t |-> [st.t EXCEPT ![k].pc = "woken"], r |-> Append(st.r, k)]
      ELSE st

WakeCp(st) ==
    IF \E g \in Conns : st.t[<<g, "CP">>].pc = "recv"
      THEN WakeRecv(st, <<CHOOSE g \in Conns : st.t[<<g, "CP">>].pc = "recv", "CP">>)
      ELSE st

\* ---------------------------------------------------------------- initial

\* SnoopWebSocketServer.__init__: no client yet, and _forward_messages
\* created, about to wait on the queue.
NoMessage == [pc |-> "get", n |-> 0, msg_json |-> "", todo |-> {}, ws |-> 0, at |-> 0]

SnoopStart ==
    /\ snoop_sockets = {}
    /\ sconn = [s \in Sessions |-> "none"]
    /\ spc = [s \in Sessions |-> "none"]
    /\ fwd = NoMessage
    /\ delivered = [s \in Sessions |-> <<>>]
    /\ refused = [s \in Sessions |-> <<>>]
    /\ regAt = [s \in Sessions |-> 0]

\* OCPPFilter.__init__: nothing learned.
FilterStart ==
    /\ manufacturer = <<>>
    /\ filtered = <<>>

\* MQTTPublisher.__init__ and start() up to the call of run(): nothing
\* queued, cached or published, the network thread started and not yet in a
\* callback, process_messages about to read the snoop stream.
PubStart ==
    /\ queue = <<>>
    /\ exit_task = FALSE
    /\ connected = FALSE
    /\ broker_connection_failed = FALSE
    /\ published_discoveries = <<>>
    /\ run = [pc |-> "wait", data |-> <<>>]
    /\ on_connect = [pc |-> "idle", idx |-> 0, used |-> 0]
    /\ feeder = "for"
    /\ published = <<>>
    /\ enqueued = <<>>
    /\ notices = <<>>

Init ==
    /\ path \in Paths
    /\ subproto \in Subprotocols
    /\ hasClosed \in BOOLEAN
    /\ hpc = "handshake"
    /\ cpClosed = FALSE
    /\ cpSent = 0
    /\ cpIn = <<>>
    /\ cpOut = <<>>
    /\ gen = 0
    /\ csms = [g \in Conns |-> "none"]
    /\ csmsSent = 0
    /\ csmsIn = [g \in Conns |-> <<>>]
    /\ csmsOut = <<>>
    /\ task = [k \in Conns \X Dirs |-> NoTask]
    /\ ready = <<Handler>>
    /\ snoop_queue = <<>>
    /\ emitted = <<>>
    /\ SnoopStart
    /\ FilterStart
    /\ PubStart

\* ------------------------------------------------------------ environment

\* A frame of the charge point arrives.
CPSend(x) ==
    LET st == WakeCp([t |-> task, r |-> ready])
    IN  /\ ~cpClosed
        /\ cpSent + csmsSent < MaxFrames
        /\ cpSent' = cpSent + 1
        /\ cpIn' = Append(cpIn, [n |-> cpSent + 1, text |-> x])
        /\ task' = st.t
        /\ ready' = st.r
        /\ UNCHANGED <<path, subproto, hasClosed, hpc, cpClosed, cpOut, gen, csms,
                       csmsSent, csmsIn, csmsOut, snoop_queue, emitted>>
        /\ UNCHANGED <<snoopVars, filterVars, pubVars>>

\* The charge point closes its connection.
CPClose ==
    LET st == WakeCp([t |-> task, r |-> ready])
    IN  /\ ~cpClosed
        /\ cpClosed' = TRUE
        /\ task' = st.t
        /\ ready' = st.r
        /\ UNCHANGED <<path, subproto, hasClosed, hpc, cpSent, cpIn, cpOut, gen,
                       csms, csmsSent, csmsIn, csmsOut, snoop_queue, emitted>>
        /\ UNCHANGED <<snoopVars, filterVars, pubVars>>

\* A frame of the CSMS arrives on an open connection.
CSMSSend(g, x) ==
    LET st == WakeRecv([t |-> task, r |-> ready], <<g, "CSMS">>)
    IN  /\ csms[g] = "open"
        /\ cpSent + csmsSent < MaxFrames
        /\ csmsSent' = csmsSent + 1
        /\ csmsIn' = [csmsIn EXCEPT ![g] = Append(@, [n |-> csmsSent + 1, text |-> x])]
        /\ task' = st.t
        /\ ready' = st.r
        /\ UNCHANGED <<path, subproto, hasClosed, hpc, cpClosed, cpSent, cpIn, cpOut,
                       gen, csms, csmsOut, snoop_queue, emitted>>
        /\ UNCHANGED <<snoopVars, filterVars, pubVars>>

\* The CSMS closes a connection.
CSMSClose(g) ==
    LET st == WakeRecv([t |-> task, r |-> ready], <<g, "CSMS">>)
    IN  /\ csms[g] = "open"
        /\ csms' = [csms EXCEPT ![g] = "closed"]
        /\ task' = st.t
        /\ ready' = st.r
        /\ UNCHANGED <<path, subproto, hasClosed, hpc, cpClosed, cpSent, cpIn, cpOut,
                       gen, csmsSent, csmsIn, csmsOut, snoop_queue, emitted>>
        /\ UNCHANGED <<snoopVars, filterVars, pubVars>>

\* A connection attempt of websockets.connect succeeds: the iterator yields
\* the connection and the handler becomes runnable.
ConnectOK ==
    /\ hpc = "connecting"
    /\ gen < MaxConn
    /\ gen' = gen + 1
    /\ csms' = [csms EXCEPT ![gen + 1] = "open"]
    /\ hpc' = "yielded"
    /\ ready' = Append(ready, Handler)
    /\ UNCHANGED <<path, subproto, hasClosed, cpClosed, cpSent, cpIn, cpOut,
                   csmsSent, csmsIn, csmsOut, task, snoop_queue, emitted>>
    /\ UNCHANGED <<snoopVars, filterVars, pubVars>>

\* A connection attempt fails (the CSMS is unreachable): the iterator sleeps
\* for its backoff delay.
ConnectFail ==
    /\ hpc = "connecting"
    /\ hpc' = "backoff"
    /\ UNCHANGED <<path, subproto, hasClosed, cpClosed, cpSent, cpIn, cpOut, gen,
                   csms, csmsSent, csmsIn, csmsOut, task, ready, snoop_queue,
                   emitted>>
    /\ UNCHANGED <<snoopVars, filterVars, pubVars>>

\* The backoff delay is over: the iterator starts the next attempt.
Retry ==
    /\ hpc = "backoff"
    /\ hpc' = "connecting"
    /\ UNCHANGED <<path, subproto, hasClosed, cpClosed, cpSent, cpIn, cpOut, gen,
                   csms, csmsSent, csmsIn, csmsOut, task, ready, snoop_queue,
                   emitted>>
    /\ UNCHANGED <<snoopVars, filterVars, pubVars>>

\* ------------------------------------------------------ OCPPRelay._relay

SourceIn(g, d) == IF d = "CP" THEN cpIn ELSE csmsIn[g]
SourceClosed(g, d) == IF d = "CP" THEN cpClosed ELSE csms[g] # "open"
TargetClosed(g, d) == IF d = "CP" THEN csms[g] # "open" ELSE cpClosed

\* The event a loop builds for a frame it has sent on.
SnoopEvent(d, text) == MessageData(d, subproto, ChargePointId, Parse(text))

\* gather returns when both loops of the current pair have ended, and raises
\* the first exception of either at once (the other loop is not cancelled).
GatherDone(t) ==
    \/ \E d \in Dirs : t[<<gen, d>>].pc = "raised"
    \/ \A d \in Dirs : t[<<gen, d>>].pc = "ended"

\* A loop leaves _relay (break, or an exception): it leaves the queue, and
\* the handler waiting in gather on this pair becomes runnable.
Leave(k, t) ==
    /\ task' = t
    /\ IF hpc = "gather" /\ k[1] = gen /\ GatherDone(t)
         THEN hpc' = "resumed" /\ ready' = Append(Tail(ready), Handler)
         ELSE hpc' = hpc /\ ready' = Tail(ready)

\* One pass of the loop body on a received message whose decoded value is v,
\* with the target connection closed or not: what was done (sent: the send
\* returned; put: the event was put on the snoop queue) and how the pass
\* ends (pc "start": the loop goes round to recv()).
Pass_PutBeforeSend(v, closed) ==
    IF v.kind = "invalid"
      THEN [sent |-> FALSE, put |-> FALSE, pc |-> "raised", exc |-> "JSONDecodeError"]
    ELSE IF closed
      THEN [sent |-> FALSE, put |-> TRUE, pc |-> "ended", exc |-> "ConnectionClosed"]
    ELSE IF ~HasIndex1(v)
      THEN [sent |-> TRUE, put |-> TRUE, pc |-> "raised", exc |-> "LookupError"]
    ELSE [sent |-> TRUE, put |-> TRUE, pc |-> "start", exc |-> ""]

Pass(v, closed) ==
    IF v.kind = "invalid"
      THEN \* json.loads raises json.JSONDecodeError: not caught in _relay
           [sent |-> FALSE, put |-> FALSE, pc |-> "raised", exc |-> "JSONDecodeError"]
    ELSE IF closed
      THEN \* send raises ConnectionClosed: logged, break
           [sent |-> FALSE, put |-> FALSE, pc |-> "ended", exc |-> "ConnectionClosed"]
    ELSE IF ~HasIndex1(v)
      THEN \* json_message[1] in the log line raises: not caught in _relay
           [sent |-> TRUE, put |-> FALSE, pc |-> "raised", exc |-> "LookupError"]
    ELSE [sent |-> TRUE, put |-> TRUE, pc |-> "start", exc |-> ""]

\* The loop runs: it calls recv().  With a frame buffered, one pass of the
\* body follows and, unless the pass left the loop, the loop is back at
\* recv() without having suspended.
RelayRun(g, d) ==
    LET k == <<g, d>>
        m == Head(SourceIn(g, d))
        r == Pass(Parse(m.text), TargetClosed(g, d))
        out == [conn |-> g, n |-> m.n, orig |-> m.text, text |-> SentBytes(m.text)]
        ev == SnoopEvent(d, m.text)
        after == [task EXCEPT ![k] = [pc |-> r.pc, n |-> m.n, exc |-> r.exc]]
    IN  /\ ready # <<>> /\ Head(ready) = k
        /\ task[k].pc \in {"start", "woken"}
        /\ IF task[k].pc = "start" /\ RecvBusy(task, g, d)
             THEN \* ConcurrencyError leaves the coroutine
                  /\ Leave(k, [task EXCEPT ![k] = [pc |-> "raised", n |-> 0, exc |-> "ConcurrencyError"]])
                  /\ UNCHANGED <<cpIn, csmsIn, cpOut, csmsOut, snoop_queue, emitted>>
             ELSE IF SourceIn(g, d) # <<>>
             THEN /\ IF d = "CP" THEN cpIn' = Tail(cpIn) /\ csmsIn' = csmsIn
                                 ELSE csmsIn' = [csmsIn EXCEPT ![g] = Tail(@)] /\ cpIn' = cpIn
                  /\ csmsOut' = IF r.sent /\ d = "CP" THEN Append(csmsOut, out) ELSE csmsOut
                  /\ cpOut' = IF r.sent /\ d = "CSMS" THEN Append(cpOut, out) ELSE cpOut
                  /\ snoop_queue' = IF r.put THEN Append(snoop_queue, ev) ELSE snoop_queue
                  /\ emitted' = IF r.put THEN Append(emitted, [ev |-> ev, conn |-> g, n |-> m.n])
                                         ELSE emitted
                  /\ IF r.pc = "start"
                       THEN task' = after /\ UNCHANGED <<hpc, ready>>
                       ELSE Leave(k, after)
             ELSE IF SourceClosed(g, d)
             THEN \* recv raises ConnectionClosed: logged, break
                  /\ Leave(k, [task EXCEPT ![k] = [pc |-> "ended", n |-> 0, exc |-> "ConnectionClosed"]])
                  /\ UNCHANGED <<cpIn, csmsIn, cpOut, csmsOut, snoop_queue, emitted>>
             ELSE \* nothing buffered: the coroutine suspends in recv()
                  /\ task' = [task EXCEPT ![k] = [pc |-> "recv", n |-> 0, exc |-> ""]]
                  /\ ready' = Tail(ready)
                  /\ UNCHANGED <<hpc, cpIn, csmsIn, cpOut, csmsOut, snoop_queue, emitted>>
        /\ UNCHANGED <<path, subproto, hasClosed, cpClosed, cpSent, gen, csms, csmsSent>>
        /\ UNCHANGED <<snoopVars, filterVars, pubVars>>

\* ------------------------------------------------ OCPPRelay._on_connect

\* Closing a CSMS connection from the relay's side wakes the loop reading it.
CloseCsms(st, g) == WakeRecv(st, <<g, "CSMS">>)

\* The handler returns: the connect iterator is finalised, which closes the
\* CSMS connection it had yielded, and the server closes the charge-point
\* connection.
HandlerReturns ==
    LET st == WakeCp(CloseCsms([t |-> task, r |-> Tail(ready)], gen))
    IN  /\ hpc' = "done"
        /\ cpClosed' = TRUE
        /\ csms' = [csms EXCEPT ![gen] = "closed"]
        /\ task' = st.t
        /\ ready' = st.r

\* Lines 56-64: the Sec-WebSocket-Protocol header is read; without it the
\* connection is closed and the handler returns.  Otherwise the first
\* connection attempt starts.
Handshake_NoHeaderCheck ==
    /\ ready # <<>> /\ Head(ready) = Handler
    /\ hpc = "handshake"
    /\ hpc' = "connecting"
    /\ ready' = Tail(ready)
    /\ UNCHANGED <<path, subproto, hasClosed, cpClosed, cpSent, cpIn, cpOut, gen,
                   csms, csmsSent, csmsIn, csmsOut, task, snoop_queue, emitted>>
    /\ UNCHANGED <<snoopVars, filterVars, pubVars>>

Handshake ==
    /\ ready # <<>> /\ Head(ready) = Handler
    /\ hpc = "handshake"
    /\ IF subproto = NoProtocol
         THEN hpc' = "done" /\ cpClosed' = TRUE
         ELSE hpc' = "connecting" /\ cpClosed' = cpClosed
    /\ ready' = Tail(ready)
    /\ UNCHANGED <<path, subproto, hasClosed, cpSent, cpIn, cpOut, gen, csms,
                   csmsSent, csmsIn, csmsOut, task, snoop_queue, emitted>>
    /\ UNCHANGED <<snoopVars, filterVars, pubVars>>

\* Lines 87-97: with a connection yielded, the closed check; then gather
\* schedules the two loops and the handler waits for them.
StartLoops ==
    /\ ready # <<>> /\ Head(ready) = Handler
    /\ hpc = "yielded"
    /\ IF CpObservedClosed
         THEN HandlerReturns
         ELSE /\ hpc' = "gather"
              /\ task' = [task EXCEPT ![<<gen, "CP">>] = [pc |-> "start", n |-> 0, exc |-> ""],
                                      ![<<gen, "CSMS">>] = [pc |-> "start", n |-> 0, exc |-> ""]]
              /\ ready' = Tail(ready) \o <<(<<gen, "CP">>), (<<gen, "CSMS">>)>>
              /\ UNCHANGED <<cpClosed, csms>>
    /\ UNCHANGED <<path, subproto, hasClosed, cpSent, cpIn, cpOut, gen, csmsSent,
                   csmsIn, csmsOut, snoop_queue, emitted>>
    /\ UNCHANGED <<snoopVars, filterVars, pubVars>>

\* Lines 98-111: every outcome of gather other than a cancellation is logged
\* and falls through to the closed check; if the charge point is not seen
\* closed the loop goes back to the iterator, which closes the connection it
\* had yielded and starts a new connection attempt.
AfterGather ==
    /\ ready # <<>> /\ Head(ready) = Handler
    /\ hpc = "resumed"
    /\ IF CpObservedClosed
         THEN HandlerReturns
         ELSE LET st == CloseCsms([t |-> task, r |-> Tail(ready)], gen)
              IN  /\ hpc' = "connecting"
                  /\ csms' = [csms EXCEPT ![gen] = "closed"]
                  /\ task' = st.t
                  /\ ready' = st.r
                  /\ cpClosed' = cpClosed
    /\ UNCHANGED <<path, subproto, hasClosed, cpSent, cpIn, cpOut, gen, csmsSent,
                   csmsIn, csmsOut, snoop_queue, emitted>>
    /\ UNCHANGED <<snoopVars, filterVars, pubVars>>

\* ---------------------------------------------------------- specification

Environment ==
    \/ \E x \in CpTexts : CPSend(x)
    \/ CPClose
    \/ \E g \in Conns, x \in CsmsTexts : CSMSSend(g, x)
    \/ \E g \in Conns : CSMSClose(g)
    \/ ConnectOK
    \/ ConnectFail
    \/ Retry

RelayStep == \E g \in Conns, d \in Dirs : RelayRun(g, d)

HandlerStep ==
    \/ Handshake
    \/ StartLoops
    \/ AfterGather

Next == Environment \/ RelayStep \/ HandlerStep

Spec == Init /\ [][Next]_vars

\* The event loop runs every runnable coroutine; the peers are under no
\* obligation to send, close or accept anything.
FairSpec == Spec /\ WF_vars(RelayStep) /\ WF_vars(HandlerStep)

\* ------------------------------------------------ SnoopWebSocketServer
\* The snoop server runs on the same event loop as the relay and shares the
\* queue with it.  In this part every relay session is represented by the
\* events its loops put on the queue (lines 44-47 of _relay); the snoop
\* coroutines interleave at their awaits only: the get on an empty queue,
\* a send that finds the client's write buffer full, and each recv.

\* The (path, sender, frame) of the events the relay sessions emit: two
\* charge points, both directions, taking turns.
SnoopSources == <<(<<"/CP7", "CP", "[2,7]">>), (<<"/CP8/", "CSMS", "[3, 8]">>)>>
SourceOf(n) == SnoopSources[((n - 1) % Len(SnoopSources)) + 1]

\* json.dumps(asdict(msg)), without the timestamp field.
Dumps(msg) ==
    "{\"event\": \"" \o msg.event \o "\", \"sender\": \"" \o msg.sender
        \o "\", \"protocol\": \"" \o msg.protocol \o "\", \"cp_id\": \"" \o msg.cp_id
        \o "\", \"payload\": " \o msg.payload.dumps \o "}"

\* snoop_queue.put_nowait(item) on the asyncio.Queue() core() creates
\* without a maxsize: it never raises QueueFull.
QueuePut_Bounded(q, item) ==
    IF Len(q) >= 1 THEN [ok |-> FALSE, q |-> q] ELSE [ok |-> TRUE, q |-> Append(q, item)]

QueuePut(q, item) == [ok |-> TRUE, q |-> Append(q, item)]

\* snoop_queue.get() with an item queued: the oldest one.
QueueGet_Newest(q) == [item |-> q[Len(q)], rest |-> SubSeq(q, 1, Len(q) - 1)]

QueueGet(q) == [item |-> Head(q), rest |-> Tail(q)]

\* _forward_messages is running: it is between two awaits that suspend, so no
\* other coroutine and no callback of the event loop runs.
FanOutRunning == fwd.pc \in {"iter", "run"}

\* The task goes round to line 39: with an event queued get() returns
\* without suspending.
BackToGet(q) == IF q = <<>> THEN "get" ELSE "run"

\* A relay loop has sent a frame on and puts its event on the queue.
Emit(src) ==
    LET ev == MessageData(src[2], "ocpp1.6", StripSlashes(src[1]), Parse(src[3]))
        r == QueuePut(snoop_queue, ev)
    IN  /\ ~FanOutRunning
        /\ Len(emitted) < MaxEvents
        /\ r.ok
        /\ snoop_queue' = r.q
        /\ emitted' = Append(emitted, [ev |-> ev, conn |-> 0, n |-> Len(emitted) + 1])
        /\ UNCHANGED <<relayVars, snoopVars, filterVars, pubVars>>

\* Lines 39-43: get() returns the next event; it is serialised once and the
\* iteration over a copy of the registered set starts.
FanGet ==
    LET r == QueueGet(snoop_queue)
        snap == snoop_sockets
    IN  /\ fwd.pc \in {"get", "run"}
        /\ snoop_queue # <<>>
        /\ snoop_queue' = r.rest
        /\ fwd' = [pc |-> IF snap = {} THEN BackToGet(r.rest) ELSE "iter", n |-> fwd.n + 1,
                   msg_json |-> Dumps(r.item), todo |-> snap, ws |-> 0, at |-> Len(emitted)]
        /\ UNCHANGED <<relayVars, emitted, snoop_sockets, sconn, spc, delivered,
                       refused, regAt, filterVars, pubVars>>

\* Lines 44-48: the send to session s is over.  It returned (ok), or it
\* raised and line 48 removes s from the set: set.remove raises KeyError for
\* an element that is not in the set, which ends the task.  After the last
\* session of the copy the task is back at the get.  (fwd.at: the number of
\* events emitted when the task took its present position.)
SendOver(s, ok) ==
    LET rest == fwd.todo \ {s}
        next == IF rest = {} THEN BackToGet(snoop_queue) ELSE "iter"
        on == [fwd EXCEPT !.pc = next, !.todo = rest, !.ws = 0, !.at = Len(emitted)]
    IN  IF ok
          THEN /\ delivered' = [delivered EXCEPT ![s] =
                                   Append(@, [n |-> fwd.n, text |-> fwd.msg_json])]
               /\ fwd' = on
               /\ UNCHANGED <<snoop_sockets, refused>>
          ELSE /\ refused' = [refused EXCEPT ![s] = Append(@, fwd.n)]
               /\ delivered' = delivered
               /\ IF s \in snoop_sockets
                    THEN snoop_sockets' = snoop_sockets \ {s} /\ fwd' = on
                    ELSE snoop_sockets' = snoop_sockets /\ fwd' = [on EXCEPT !.pc = "dead"]

\* Line 45 for the next session of the copy (a set: any order).  On a closed
\* connection send raises; on an open one it returns, or suspends with the
\* write buffer full.
FanSend(s, full) ==
    /\ fwd.pc = "iter"
    /\ s \in fwd.todo
    /\ IF sconn[s] # "open"
         THEN SendOver(s, FALSE)
         ELSE IF full
         THEN /\ fwd' = [fwd EXCEPT !.pc = "send", !.ws = s, !.at = Len(emitted)]
              /\ UNCHANGED <<snoop_sockets, delivered, refused>>
         ELSE SendOver(s, TRUE)
    /\ UNCHANGED <<relayVars, snoop_queue, emitted, sconn, spc, regAt, filterVars, pubVars>>

\* The suspended send resumes: the buffer has drained, or the connection
\* was closed in the meantime and send raises.
FanResume ==
    /\ fwd.pc = "send"
    /\ SendOver(fwd.ws, sconn[fwd.ws] = "open")
    /\ UNCHANGED <<relayVars, snoop_queue, emitted, sconn, spc, regAt, filterVars, pubVars>>

\* Lines 59-62: a snoop client connects; its handler registers it and waits
\* in recv().  (Frames the client sends are read and ignored.)
SnoopConnect(s) ==
    /\ ~FanOutRunning
    /\ sconn[s] = "none"
    /\ \A t \in Sessions : t < s => sconn[t] # "none"
    /\ sconn' = [sconn EXCEPT ![s] = "open"]
    /\ spc' = [spc EXCEPT ![s] = "recv"]
    /\ snoop_sockets' = snoop_sockets \cup {s}
    /\ regAt' = [regAt EXCEPT ![s] = Len(emitted)]
    /\ UNCHANGED <<relayVars, snoop_queue, emitted, fwd, delivered, refused, filterVars, pubVars>>

\* A snoop client closes its connection, or its connection is lost: the
\* event loop's callback marks the connection closed.
SnoopClientClose(s) ==
    /\ ~FanOutRunning
    /\ sconn[s] = "open"
    /\ sconn' = [sconn EXCEPT ![s] = "closed"]
    /\ UNCHANGED <<relayVars, snoop_queue, emitted, snoop_sockets, spc, fwd,
                   delivered, refused, regAt, filterVars, pubVars>>

\* Lines 55-57 and 63: recv() raises ConnectionClosed, _relay breaks and the
\* handler removes the session: KeyError if it is not in the set.
SnoopHandlerExit(s) ==
    /\ ~FanOutRunning
    /\ spc[s] = "recv"
    /\ sconn[s] = "closed"
    /\ IF s \in snoop_sockets
         THEN snoop_sockets' = snoop_sockets \ {s} /\ spc' = [spc EXCEPT ![s] = "done"]
         ELSE snoop_sockets' = snoop_sockets /\ spc' = [spc EXCEPT ![s] = "failed"]
    /\ UNCHANGED <<relayVars, snoop_queue, emitted, sconn, fwd, delivered,
                   refused, regAt, filterVars, pubVars>>

FanOutStep ==
    \/ FanGet
    \/ \E s \in Sessions, full \in BOOLEAN : FanSend(s, full)
    \/ FanResume

SnoopNext ==
    \/ Emit(SourceOf(Len(emitted) + 1))
    \/ FanOutStep
    \/ \E s \in Sessions : SnoopConnect(s)
    \/ \E s \in Sessions : SnoopClientClose(s)
    \/ \E s \in Sessions : SnoopHandlerExit(s)

\* The relay's own session variables stay as at the start.
SnoopInit == Init /\ path = "/CP7" /\ subproto = "ocpp1.6" /\ ~hasClosed

SnoopSpec == SnoopInit /\ [][SnoopNext]_vars

\* The event loop runs _forward_messages whenever it can go on: with an
\* event queued, inside its iteration, and when a suspended send is over
\* (the client has read, or its connection was closed).  The relay sessions
\* and the snoop clients are under no obligation.
FairSnoopSpec == SnoopSpec /\ WF_vars(FanOutStep)

\* ------------------------------------------------------------ OCPPFilter
\* Decoded JSON values, tagged with their Python type.
JNull == [t |-> "null"]
JInt(i) == [t |-> "int", i |-> i]
JStr(x) == [t |-> "str", s |-> x]
JList(q) == [t |-> "list", q |-> q]
JDict(f) == [t |-> "dict", d |-> f]

\* d.get(key, default) of a dict.
Get(j, key, default) == IF key \in DOMAIN j.d THEN j.d[key] ELSE default

\* Python truth value.
Truthy(j) ==
    CASE j.t = "null" -> FALSE
      [] j.t = "int"  -> j.i # 0
      [] j.t = "str"  -> j.s # ""
      [] j.t = "list" -> j.q # <<>>
      [] j.t = "dict" -> DOMAIN j.d # {}

\* f"{x}": str(x).
Fmt(j) ==
    CASE j.t = "null" -> "None"
      [] j.t = "str"  -> j.s
      [] j.t = "int"  -> (CASE j.i = 0 -> "0" [] j.i = 1 -> "1" [] j.i = 2 -> "2" [] OTHER -> "3")
      [] OTHER        -> "[...]"

\* `for x in j`: the elements of a list; a dict yields its keys and a string
\* its characters (strings, either way); anything else is not iterable.
Iter(j) ==
    CASE j.t = "list" -> [exc |-> "", items |-> j.q]
      [] j.t = "dict" -> [exc |-> "", items |-> IF DOMAIN j.d = {} THEN <<>> ELSE <<JStr("k")>>]
      [] j.t = "str"  -> [exc |-> "", items |-> IF j.s = "" THEN <<>> ELSE <<JStr("c")>>]
      [] OTHER        -> [exc |-> "TypeError", items |-> <<>>]

\* s.replace('/', '_'), s.replace('.', '-'), s.replace('-', ' ') and
\* s.lower().startswith("ocpp") / s[4:], on the strings of this model.
SlashToUnderscore(x) == CASE x = "s/CP7" -> "s_CP7" [] OTHER -> x

DotToDash(x) ==
    CASE x = "Energy.Active.Import.Register" -> "Energy-Active-Import-Register"
      [] x = "Power.Active.Import"           -> "Power-Active-Import"
      [] OTHER                               -> x

DashToSpace(x) ==
    CASE x = "Energy-Active-Import-Register" -> "Energy Active Import Register"
      [] x = "Power-Active-Import"           -> "Power Active Import"
      [] OTHER                               -> x

BareVersion_CaseSensitive(protocol) ==
    CASE protocol = "ocpp1.6"   -> "1.6"
      [] protocol = "ocpp2.0.1" -> "2.0.1"
      [] OTHER                  -> protocol

BareVersion(protocol) ==
    CASE protocol = "ocpp1.6"   -> "1.6"
      [] protocol = "OCPP1.6"   -> "1.6"
      [] protocol = "ocpp2.0.1" -> "2.0.1"
      [] OTHER                  -> protocol

\* Lines 89-98: the sensor type of a measurand, by prefix.
SensorType_UnknownIsEnergy(value_type) ==
    CASE value_type = "Power-Active-Import" -> "power"
      [] value_type = "Voltage"             -> "voltage"
      [] value_type = "Current"             -> "current"
      [] OTHER                              -> "energy"

SensorType(value_type) ==
    CASE value_type = "Energy-Active-Import-Register" -> "energy"
      [] value_type = "Power-Active-Import"           -> "power"
      [] value_type = "Voltage"                       -> "voltage"
      [] value_type = "Current"                       -> "current"
      [] OTHER                                        -> "none"

\* MessageData(**json.loads(message)) as the snoop client rebuilds it, with
\* the timestamp the relay gave the event.
SnoopedData(event, sender, protocol, cp_id, payload, timestamp) ==
    [event |-> event, sender |-> sender, protocol |-> protocol, cp_id |-> cp_id,
     payload |-> payload, timestamp |-> timestamp]

\* Lines 18-34: the events filter returns None for before it looks at the
\* action.
Ignored_AnySender(msg) ==
    \/ msg.event # "Message"
    \/ msg.payload.t # "list"
    \/ Len(msg.payload.q) < 4
    \/ msg.payload.q[1] # JInt(2)

Ignored(msg) ==
    \/ msg.event # "Message"
    \/ msg.sender # "CP"
    \/ msg.payload.t # "list"
    \/ Len(msg.payload.q) < 4
    \/ msg.payload.q[1] # JInt(2)

\* _get_manufacturer (lines 55-66); None as JNull.
get_manufacturer(ocpp) ==
    LET action == ocpp.q[3]
        payload == ocpp.q[4]
    IN  IF action = JStr("DataTransfer") /\ payload.t = "dict" /\ "vendorId" \in DOMAIN payload.d
          THEN Get(payload, "vendorId", JNull)
          ELSE JNull

\* Lines 36-39: the entry of the charge point is created, and filled while
\* it holds nothing true.
Learn_OnlyWhenAbsent(man, cp_id, ocpp) ==
    IF cp_id \in DOMAIN man THEN man ELSE man @@ (cp_id :> get_manufacturer(ocpp))

Learn_Overwrite(man, cp_id, ocpp) ==
    LET m1 == IF cp_id \in DOMAIN man THEN man ELSE man @@ (cp_id :> JNull)
    IN  IF ~Truthy(m1[cp_id]) \/ Truthy(get_manufacturer(ocpp))
          THEN [m1 EXCEPT ![cp_id] = get_manufacturer(ocpp)]
          ELSE m1

Learn(man, cp_id, ocpp) ==
    LET m1 == IF cp_id \in DOMAIN man THEN man ELSE man @@ (cp_id :> JNull)
    IN  IF ~Truthy(m1[cp_id])
          THEN [m1 EXCEPT ![cp_id] = get_manufacturer(ocpp)]
          ELSE m1

\* _new_MQTTData (lines 68-73), with the attributes the callers set; the
\* fields nothing sets keep the defaults of the dataclass.
new_MQTTData(man, cp_id, timestamp) ==
    [device_class |-> "sensor", cp_id |-> cp_id, manufacturer |-> man[cp_id],
     timestamp |-> timestamp, topic |-> "", unique_id |-> "", name |-> "",
     value |-> JNull, unit |-> JNull]

\* _new_meter_MQTTData (lines 75-116): [none |-> TRUE] for None.
new_meter_MQTTData(man, cp_id, timestamp, value_type, evse_id, location, value, unit) ==
    LET vt == DotToDash(IF value_type.t = "str" THEN value_type.s
                                                ELSE "Energy.Active.Import.Register")
        loc == IF ~Truthy(location) THEN "Outlet" ELSE Fmt(location)
        m == new_MQTTData(man, cp_id, timestamp)
    IN  IF SensorType(vt) = "none"
          THEN [none |-> TRUE, m |-> m]
          ELSE [none |-> FALSE,
                m |-> [m EXCEPT
                    !.topic = Fmt(evse_id) \o "/" \o loc \o "/" \o vt,
                    !.unique_id = "OCPP_" \o SlashToUnderscore(cp_id) \o "_"
                                      \o SlashToUnderscore(Fmt(evse_id)) \o "_"
                                      \o SlashToUnderscore(loc) \o "_" \o SlashToUnderscore(vt),
                    !.name = IF ~Truthy(evse_id)
                               THEN DashToSpace(vt) \o " " \o loc \o " CP " \o cp_id
                               ELSE "C" \o Fmt(evse_id) \o " " \o DashToSpace(vt) \o " "
                                        \o loc \o " CP " \o cp_id,
                    !.value = value,
                    !.device_class = SensorType(vt),
                    !.unit = unit]]

\* What a call returns or raises: ret is "None" or "list".
Returned(ret, out) == [exc |-> "", ret |-> ret, out |-> out]
Raised(exc) == [exc |-> exc, ret |-> "", out |-> <<>>]

\* The StatusNotification branch (lines 125-136 and 163-177): key and field
\* are connectorId/status for 1.6 and evseId/connectorStatus otherwise.
StatusRecord(man, cp_id, timestamp, payload, key, field) ==
    IF payload.t # "dict"
      THEN Raised("AttributeError")
      ELSE LET cable_id == Get(payload, key, JNull)
               m == new_MQTTData(man, cp_id, timestamp)
           IN  Returned("list", <<[m EXCEPT
                   !.topic = Fmt(cable_id) \o "/status",
                   !.unique_id = "OCPP_" \o cp_id \o "_" \o Fmt(cable_id) \o "_status",
                   !.name = IF ~Truthy(cable_id)
                              THEN "Status CP " \o cp_id
                              ELSE "C" \o Fmt(cable_id) \o " Status CP " \o cp_id,
                   !.value = Get(payload, field, JNull)]>>)

\* The body of the inner loop for one sampled value v (lines 142-149 and
\* 183-196); c holds what the loops keep fixed.
Sample(c, v) ==
    IF v.t # "dict"
      THEN [exc |-> "AttributeError", none |-> TRUE, m |-> JNull]
      ELSE LET uom == Get(v, "unitOfMeasure", JNull)
               bad == c.v20 /\ Truthy(uom) /\ uom.t # "dict"
               unit == IF ~c.v20 THEN Get(v, "unit", JNull)
                       ELSE IF ~Truthy(uom) THEN JStr("Wh")
                       ELSE IF uom.t = "dict" THEN Get(uom, "unit", JNull)
                       ELSE JNull
               r == new_meter_MQTTData(c.man, c.cp_id, c.timestamp, Get(v, "measurand", JNull),
                                       c.id, Get(v, "location", JNull),
                                       Get(v, "value", JNull), unit)
           IN  IF bad THEN [exc |-> "AttributeError", none |-> TRUE, m |-> JNull]
                      ELSE [exc |-> "", none |-> r.none, m |-> r.m]

RECURSIVE WalkSamples(_, _, _)
WalkSamples(c, svs, acc) ==
    IF svs = <<>>
      THEN Returned("list", acc)
      ELSE LET r == Sample(c, Head(svs))
           IN  IF r.exc # "" THEN Raised(r.exc)
               ELSE WalkSamples(c, Tail(svs), IF r.none THEN acc ELSE Append(acc, r.m))

RECURSIVE WalkBlocks(_, _, _)
WalkBlocks(c, mvs, acc) ==
    IF mvs = <<>>
      THEN Returned("list", acc)
      ELSE LET mv == Head(mvs)
               it == Iter(Get(mv, "sampledValue", JList(<<>>)))
               r == WalkSamples(c, it.items, acc)
           IN  IF mv.t # "dict" THEN Raised("AttributeError")
               ELSE IF it.exc # "" THEN Raised(it.exc)
               ELSE IF r.exc # "" THEN r
               ELSE WalkBlocks(c, Tail(mvs), r.out)

\* The MeterValues branch (lines 137-150 and 178-197).
MeterRecords(man, cp_id, timestamp, payload, key, v20) ==
    IF payload.t # "dict"
      THEN Raised("AttributeError")
      ELSE LET it == Iter(Get(payload, "meterValue", JList(<<>>)))
               c == [man |-> man, cp_id |-> cp_id, timestamp |-> timestamp,
                     id |-> Get(payload, key, JNull), v20 |-> v20]
           IN  IF it.exc # "" THEN Raised(it.exc) ELSE WalkBlocks(c, it.items, <<>>)

\* _filter_ocpp16 (lines 118-152) and _filter_ocpp20 (lines 154-199).
filter_ocpp16(man, cp_id, timestamp, ocpp) ==
    IF ocpp.q[3] = JStr("StatusNotification")
      THEN StatusRecord(man, cp_id, timestamp, ocpp.q[4], "connectorId", "status")
    ELSE IF ocpp.q[3] = JStr("MeterValues")
      THEN MeterRecords(man, cp_id, timestamp, ocpp.q[4], "connectorId", FALSE)
    ELSE Returned("None", <<>>)

filter_ocpp20(man, cp_id, timestamp, ocpp) ==
    IF ocpp.q[3] = JStr("StatusNotification")
      THEN StatusRecord(man, cp_id, timestamp, ocpp.q[4], "evseId", "connectorStatus")
    ELSE IF ocpp.q[3] = JStr("MeterValues")
      THEN MeterRecords(man, cp_id, timestamp, ocpp.q[4], "evseId", TRUE)
    ELSE Returned("None", <<>>)

\* OCPPFilter.filter (lines 17-53) on the vendor map man: what it returns
\* or raises, and the map it leaves.
filter_DispatchFirst(man, msg) ==
    LET cp_id == msg.cp_id
        ocpp == msg.payload
        learnt == Learn(man, cp_id, ocpp)
        m == new_MQTTData(learnt, cp_id, msg.timestamp)
    IN  IF Ignored(msg)
          THEN [r |-> Returned("None", <<>>), man |-> man]
        ELSE IF BareVersion(msg.protocol) # "1.6"
          THEN [r |-> filter_ocpp20(learnt, cp_id, msg.timestamp, ocpp), man |-> learnt]
        ELSE IF ocpp.q[3] = JStr("Heartbeat")
          THEN [r |-> Returned("list", <<[m EXCEPT
                          !.topic = "heartbeat",
                          !.unique_id = "OCPP_" \o cp_id \o "_heartbeat",
                          !.name = "Heartbeat CP " \o cp_id,
                          !.device_class = "timestamp",
                          !.value = JStr(msg.timestamp)]>>),
                man |-> learnt]
          ELSE [r |-> filter_ocpp16(learnt, cp_id, msg.timestamp, ocpp), man |-> learnt]

filter(man, msg) ==
    LET cp_id == msg.cp_id
        ocpp == msg.payload
        learnt == Learn(man, cp_id, ocpp)
        m == new_MQTTData(learnt, cp_id, msg.timestamp)
    IN  IF Ignored(msg)
          THEN [r |-> Returned("None", <<>>), man |-> man]
        ELSE IF ocpp.q[3] = JStr("Heartbeat")
          THEN [r |-> Returned("list", <<[m EXCEPT
                          !.topic = "heartbeat",
                          !.unique_id = "OCPP_" \o cp_id \o "_heartbeat",
                          !.name = "Heartbeat CP " \o cp_id,
                          !.device_class = "timestamp",
                          !.value = JStr(msg.timestamp)]>>),
                man |-> learnt]
        ELSE IF BareVersion(msg.protocol) = "1.6"
          THEN [r |-> filter_ocpp16(learnt, cp_id, msg.timestamp, ocpp), man |-> learnt]
          ELSE [r |-> filter_ocpp20(learnt, cp_id, msg.timestamp, ocpp), man |-> learnt]

\* The events one filter is given.  Frames: Calls of the actions the filter
\* knows and of one it does not, a CallResult of four and one of three
\* elements, a payload that is not a list, and a Call whose payload is not
\* an object.
Call(action, payload) == JList(<<JInt(2), JStr("19"), JStr(action), payload>>)

DataTransfer(vendor) == Call("DataTransfer", JDict("vendorId" :> JStr(vendor)))

StatusPayload ==
    JDict(("connectorId" :> JInt(1)) @@ ("status" :> JStr("Charging"))
          @@ ("evseId" :> JInt(2)) @@ ("connectorStatus" :> JStr("Occupied")))

MeterPayload ==
    JDict(("connectorId" :> JInt(1)) @@ ("evseId" :> JInt(2))
          @@ ("meterValue" :> JList(<<JDict("sampledValue" :> JList(<<
                 JDict(("value" :> JStr("230")) @@ ("measurand" :> JStr("Voltage"))
                       @@ ("unit" :> JStr("V")) @@ ("unitOfMeasure" :> JDict("unit" :> JStr("V")))),
                 JDict("value" :> JStr("7"))>>))>>)))

CallResult4 == JList(<<JInt(3), JStr("19"), JStr("DataTransfer"), JDict("vendorId" :> JStr("VendorA"))>>)
CallResult3 == JList(<<JInt(3), JStr("19"), JDict(<<>>)>>)

FilterFrames ==
    {Call("Heartbeat", JDict(<<>>)), DataTransfer(""), DataTransfer("VendorA"),
     DataTransfer("VendorB"), Call("StatusNotification", StatusPayload),
     Call("MeterValues", MeterPayload), Call("BootNotification", JDict(<<>>)),
     Call("StatusNotification", JStr("oops")), CallResult4}

\* Charge points whose paths differ in one character: /s/CP7 and /s_CP7.
FilterCpIds == {"s/CP7", "s_CP7"}

FilterEvents ==
    {SnoopedData("Message", "CP", "ocpp1.6", c, f, "T1") : c \in FilterCpIds, f \in FilterFrames}
    \cup {SnoopedData("Message", "CP", "ocpp2.0.1", "s/CP7", Call(a[1], a[2]), "T2") :
              a \in {<<"StatusNotification", StatusPayload>>, <<"MeterValues", MeterPayload>>}}
    \cup {SnoopedData("Message", "CSMS", "ocpp1.6", "s/CP7", DataTransfer("VendorB"), "T3"),
          SnoopedData("Connection", "CP", "ocpp1.6", "s/CP7", DataTransfer("VendorB"), "T3"),
          SnoopedData("Message", "CP", "ocpp1.6", "s/CP7", CallResult3, "T3"),
          SnoopedData("Message", "CP", "ocpp1.6", "s/CP7", StatusPayload, "T3")}

\* process_messages (ocpp_snoop2mqtt.py lines 79-88): the next event of the
\* snoop stream is given to the filter.  An exception of filter leaves the
\* coroutine: no event is filtered after it.
FilterCall(msg) ==
    LET f == filter(manufacturer, msg)
    IN  /\ Len(filtered) < MaxCalls
        /\ \A i \in DOMAIN filtered : filtered[i].r.exc = ""
        /\ manufacturer' = f.man
        /\ filtered' = Append(filtered, [msg |-> msg, was |-> manufacturer, r |-> f.r])
        /\ UNCHANGED <<relayVars, snoop_queue, emitted, snoopVars, pubVars>>

FilterNext == \E msg \in FilterEvents : FilterCall(msg)

FilterInit == SnoopInit

FilterSpec == FilterInit /\ [][FilterNext]_vars

\* The same filter on Calls of one charge point under every kind of protocol
\* id (1.6 with and without the prefix, in either case; 2.0.1; one that is
\* no OCPP version; none), and on payloads of other shapes than the actions
\* expect.
Protocols == {"ocpp1.6", "OCPP1.6", "1.6", "ocpp2.0.1", "foo", NoProtocol}

\* Two blocks of sampled values: a Voltage, a measurand the filter does not
\* know, one without measurand, a Power.
MeterPayloadMixed ==
    JDict(("connectorId" :> JInt(1)) @@ ("evseId" :> JInt(2))
          @@ ("meterValue" :> JList(<<
                 JDict("sampledValue" :> JList(<<
                     JDict(("value" :> JStr("230")) @@ ("measurand" :> JStr("Voltage"))),
                     JDict(("value" :> JStr("40")) @@ ("measurand" :> JStr("Temperature")))>>)),
                 JDict("sampledValue" :> JList(<<
                     JDict("value" :> JStr("7")),
                     JDict(("value" :> JStr("11")) @@ ("measurand" :> JStr("Power.Active.Import")))>>))>>)))

\* One sampled value inside a payload of the MeterValues shape.
MeterOf(sv) == JDict("meterValue" :> JList(<<JDict("sampledValue" :> JList(<<sv>>))>>))

OddPayloads ==
    {JStr("oops"), JInt(5), JNull, JList(<<>>),
     JDict("meterValue" :> JInt(5)),
     JDict("meterValue" :> JList(<<JInt(5)>>)),
     JDict("meterValue" :> JList(<<JDict("sampledValue" :> JInt(5))>>)),
     MeterOf(JInt(5)),
     MeterOf(JDict(("value" :> JStr("7")) @@ ("unitOfMeasure" :> JStr("kWh")))),
     MeterOf(JDict(("value" :> JStr("7")) @@ ("measurand" :> JInt(5))))}

ShapeEvents ==
    {SnoopedData("Message", "CP", p, "s/CP7", Call("Heartbeat", JDict(<<>>)), "T4") :
         p \in Protocols}
    \cup {SnoopedData("Message", "CP", p, "s/CP7", Call("StatusNotification", StatusPayload), "T5") :
              p \in Protocols}
    \cup {SnoopedData("Message", "CP", p, "s/CP7", Call("MeterValues", MeterPayloadMixed), "T6") :
              p \in {"ocpp1.6", "ocpp2.0.1"}}
    \cup {SnoopedData("Message", "CP", p, "s/CP7", Call("MeterValues", o), "T7") :
              p \in {"ocpp1.6", "ocpp2.0.1"}, o \in OddPayloads}
    \cup {SnoopedData("Message", "CP", p, "s/CP7", Call("StatusNotification", o), "T7") :
              p \in {"ocpp1.6", "ocpp2.0.1"}, o \in {JStr("oops"), JNull}}
    \cup {SnoopedData("Message", "CP", "ocpp1.6", "s/CP7",
                      JList(<<JInt(2), JStr("19"), JInt(5), JInt(5)>>), "T7")}

ShapeNext == \E msg \in ShapeEvents : FilterCall(msg)

ShapeSpec == FilterInit /\ [][ShapeNext]_vars

\* ------------------------------------------------------------ MQTTPublisher
\* The records process_messages hands over are records OCPPFilter returned:
\* the status and the heartbeat of one charge point, and the voltage of two.
PubSource(cp_id, action, payload) ==
    SnoopedData("Message", "CP", "ocpp1.6", cp_id, Call(action, payload), "T1")

PubRecords ==
    {filter(<<>>, ev).r.out[1] :
        ev \in {PubSource("s/CP7", "StatusNotification", StatusPayload),
                PubSource("s/CP7", "Heartbeat", JDict(<<>>)),
                PubSource("s/CP7", "MeterValues", MeterPayload),
                PubSource("s_CP7", "MeterValues", MeterPayload)}}

\* Return codes of a CONNACK: accepted, and refused as not authorised.
ReturnCodes == {0, 5}

\* _mqtt_state_topic (lines 111-113) and the discovery topic (line 118).
mqtt_state_topic(data) == "ocpp/" \o data.cp_id \o "/" \o data.topic \o "/state"

discovery_topic(data) == "homeassistant/device/ocpp/" \o data.unique_id \o "/config"

\* The discovery document of _mqtt_discover (lines 126-167); a key the code
\* leaves out is JNull here.
discover(data) ==
    [identifiers |-> "cp_" \o data.cp_id,
     serial_number |-> data.cp_id,
     manufacturer |-> IF Truthy(data.manufacturer) THEN data.manufacturer ELSE JNull,
     component |-> data.unique_id \o "_value",
     name |-> data.name,
     state_topic |-> mqtt_state_topic(data),
     device_class |-> IF data.device_class = "" THEN JNull ELSE JStr(data.device_class),
     expire_after |-> IF data.device_class # "" /\ data.topic = "heartbeat" THEN 3600 ELSE 0,
     unit_of_measurement |-> IF data.device_class = "" \/ data.topic = "heartbeat"
                               THEN JNull ELSE data.unit,
     state_class |-> IF data.device_class = "energy" /\ data.topic # "heartbeat"
                       THEN JStr("total") ELSE JNull]

\* Line 120: `topic in self._published_discoveries`.
AlreadyPublished_Never(cache, topic) == FALSE

AlreadyPublished(cache, topic) == \E i \in DOMAIN cache : cache[i].topic = topic

\* Line 40: what ends the loop that waits for the broker.
WaitOver_AnyCallback == connected \/ broker_connection_failed

WaitOver == connected

\* Lines 63-67: what ends the consuming loop.
BreakLoop_OnStopAlone(exit, empty, failed) == exit \/ failed

BreakLoop(exit, empty, failed) == (exit /\ empty) \/ failed

\* Where run goes after one pass of the loop that leaves the queue q.
AfterPass(q) ==
    IF BreakLoop(exit_task, q = <<>>, broker_connection_failed) THEN "break" ELSE "get"

\* The number of records run has taken from the queue.
Dequeued == Len(enqueued) - Len(queue)

\* One call of self._mqtt.publish: who made it (run, with the number of the
\* record; the callback, with the number of the notice), and what it sent.
Publication(by, n, kind, topic, payload) ==
    [by |-> by, n |-> n, kind |-> kind, topic |-> topic, payload |-> payload]

\* _mqtt_publish_data (lines 176-187).
mqtt_publish_data(data, n) ==
    Publication("run", n, "state", mqtt_state_topic(data), [value |-> data.value])

\* process_messages, lines 86-89: a record filter returned is put on the
\* queue (publish_data, lines 32-34; the queue has no bound).
PublishData(m) ==
    /\ feeder = "for"
    /\ Len(enqueued) < MaxRecords
    /\ queue' = Append(queue, m)
    /\ enqueued' = Append(enqueued, m)
    /\ UNCHANGED <<exit_task, connected, broker_connection_failed, published_discoveries,
                   run, on_connect, feeder, published, notices>>
    /\ UNCHANGED <<relayVars, snoop_queue, emitted, snoopVars, filterVars>>

\* process_messages, lines 91-92: the snoop stream ended; stop() (lines
\* 87-90).
Stop ==
    /\ feeder = "for"
    /\ feeder' = "done"
    /\ exit_task' = TRUE
    /\ UNCHANGED <<queue, connected, broker_connection_failed, published_discoveries,
                   run, on_connect, published, enqueued, notices>>
    /\ UNCHANGED <<relayVars, snoop_queue, emitted, snoopVars, filterVars>>

\* run, lines 40-41: the wait for the first connection ends.
RunConnected ==
    /\ run.pc = "wait"
    /\ WaitOver
    /\ run' = [run EXCEPT !.pc = "get"]
    /\ UNCHANGED <<queue, exit_task, connected, broker_connection_failed,
                   published_discoveries, on_connect, feeder, published, enqueued, notices>>
    /\ UNCHANGED <<relayVars, snoop_queue, emitted, snoopVars, filterVars>>

\* run, lines 45-67, for a record the queue holds: get() returns it and
\* _mqtt_discover publishes and caches the discovery document of a topic not
\* cached yet (run then sleeps, line 54); for a cached topic the state is
\* published and the pass ends without suspending.
RunDequeue ==
    /\ run.pc = "get"
    /\ queue # <<>>
    /\ LET data == Head(queue)
           topic == discovery_topic(data)
       IN  IF AlreadyPublished(published_discoveries, topic)
             THEN /\ published' = Append(published, mqtt_publish_data(data, Dequeued + 1))
                  /\ run' = [pc |-> AfterPass(Tail(queue)), data |-> data]
                  /\ UNCHANGED published_discoveries
             ELSE /\ published' = Append(published,
                        Publication("run", Dequeued + 1, "discovery", topic, discover(data)))
                  /\ published_discoveries' =
                        Append(published_discoveries, [topic |-> topic, discover |-> discover(data)])
                  /\ run' = [pc |-> "sleep", data |-> data]
    /\ queue' = Tail(queue)
    /\ UNCHANGED <<exit_task, connected, broker_connection_failed, on_connect, feeder,
                   enqueued, notices>>
    /\ UNCHANGED <<relayVars, snoop_queue, emitted, snoopVars, filterVars>>

\* run, lines 54-67: after the sleep the state is published and the pass
\* ends.
RunAfterSleep ==
    /\ run.pc = "sleep"
    /\ published' = Append(published, mqtt_publish_data(run.data, Dequeued))
    /\ run' = [run EXCEPT !.pc = AfterPass(queue)]
    /\ UNCHANGED <<queue, exit_task, connected, broker_connection_failed,
                   published_discoveries, on_connect, feeder, enqueued, notices>>
    /\ UNCHANGED <<relayVars, snoop_queue, emitted, snoopVars, filterVars>>

\* run, lines 45 and 59-67: wait_for gives up on an empty queue.
RunTimeout ==
    /\ run.pc = "get"
    /\ queue = <<>>
    /\ run' = [run EXCEPT !.pc = AfterPass(queue)]
    /\ UNCHANGED <<queue, exit_task, connected, broker_connection_failed,
                   published_discoveries, on_connect, feeder, published, enqueued, notices>>
    /\ UNCHANGED <<relayVars, snoop_queue, emitted, snoopVars, filterVars>>

\* run, lines 69-76: loop_stop() joins the network thread, so a callback in
\* progress ends first; then run raises or returns.
RunFinish ==
    /\ run.pc = "break"
    /\ on_connect.pc # "iter"
    /\ run' = [run EXCEPT !.pc = IF broker_connection_failed THEN "raised" ELSE "returned"]
    /\ exit_task' = IF broker_connection_failed THEN exit_task ELSE FALSE
    /\ UNCHANGED <<queue, connected, broker_connection_failed, published_discoveries,
                   on_connect, feeder, published, enqueued, notices>>
    /\ UNCHANGED <<relayVars, snoop_queue, emitted, snoopVars, filterVars>>

\* The network thread runs until loop_stop(), one callback at a time; a
\* callback that raised has ended it.
NetworkThreadIdle ==
    /\ on_connect.pc = "idle"
    /\ run.pc \notin {"returned", "raised"}
    /\ Len(notices) < MaxNotices

Notice(kind, rc) ==
    [kind |-> kind, rc |-> rc, n |-> Len(published_discoveries), at |-> Len(published)]

\* _mqtt_on_connect, lines 94-100: a CONNACK arrived.  A refusal sets the
\* failure flag; otherwise the iteration over the cache begins.
OnConnect(rc) ==
    /\ NetworkThreadIdle
    /\ notices' = Append(notices, Notice("connack", rc))
    /\ IF rc # 0
         THEN /\ broker_connection_failed' = TRUE
              /\ UNCHANGED on_connect
         ELSE /\ on_connect' = [pc |-> "iter", idx |-> 0, used |-> Len(published_discoveries)]
              /\ UNCHANGED broker_connection_failed
    /\ UNCHANGED <<queue, exit_task, connected, published_discoveries, run, feeder,
                   published, enqueued>>
    /\ UNCHANGED <<relayVars, snoop_queue, emitted, snoopVars, filterVars>>

\* _mqtt_on_connect, lines 100-104: one step of `for ... in
\* self._published_discoveries.items()`.  The iterator raises RuntimeError
\* when the dict has changed size since the iteration began; else it gives
\* the next entry, which is published, or ends, and _connected is set.
OnConnectNext ==
    /\ on_connect.pc = "iter"
    /\ IF Len(published_discoveries) # on_connect.used
         THEN /\ on_connect' = [on_connect EXCEPT !.pc = "raised"]
              /\ UNCHANGED <<published, connected>>
       ELSE IF on_connect.idx < Len(published_discoveries)
         THEN /\ published' = Append(published,
                    Publication("on_connect", Len(notices), "discovery",
                                published_discoveries[on_connect.idx + 1].topic,
                                published_discoveries[on_connect.idx + 1].discover))
              /\ on_connect' = [on_connect EXCEPT !.idx = @ + 1]
              /\ UNCHANGED connected
         ELSE /\ connected' = TRUE
              /\ on_connect' = [on_connect EXCEPT !.pc = "idle"]
              /\ UNCHANGED published
    /\ UNCHANGED <<queue, exit_task, broker_connection_failed, published_discoveries, run,
                   feeder, enqueued, notices>>
    /\ UNCHANGED <<relayVars, snoop_queue, emitted, snoopVars, filterVars>>

\* _mqtt_on_connect_fail, lines 106-109: logs, and sets nothing.
OnConnectFail ==
    /\ NetworkThreadIdle
    /\ notices' = Append(notices, Notice("connect_fail", 0))
    /\ UNCHANGED <<queue, exit_task, connected, broker_connection_failed,
                   published_discoveries, run, on_connect, feeder, published, enqueued>>
    /\ UNCHANGED <<relayVars, snoop_queue, emitted, snoopVars, filterVars>>

RunStep == RunConnected \/ RunDequeue \/ RunAfterSleep \/ RunTimeout \/ RunFinish

PubNext ==
    \/ \E m \in PubRecords : PublishData(m)
    \/ Stop
    \/ RunStep
    \/ \E rc \in ReturnCodes : OnConnect(rc)
    \/ OnConnectNext
    \/ OnConnectFail

PubInit == SnoopInit

PubSpec == PubInit /\ [][PubNext]_vars

\* The event loop runs run whenever it can go on (its sleeps and timeouts
\* end), and the network thread goes on inside a callback.
FairPubSpec == PubSpec /\ WF_vars(RunStep) /\ WF_vars(OnConnectNext)

\* ------------------------------------------------------------------ claims

Tasks == Conns \X Dirs
LoopRunning(k) == task[k].pc \in {"start", "recv", "woken"}
Increasing(log) == \A i, j \in DOMAIN log : i < j => log[i].n < log[j].n

\* What the source of direction d has had sent on, and the events of sender d.
Forwarded(d) == IF d = "CP" THEN csmsOut ELSE cpOut
EventsOf(d) == SelectSeq(emitted, LAMBDA e : e.ev.sender = d)

C2_EventsMatchForwarded ==
    \A d \in Dirs :
        /\ Len(EventsOf(d)) = Len(Forwarded(d))
        /\ \A i \in DOMAIN EventsOf(d) :
               /\ i \in DOMAIN Forwarded(d)
               /\ EventsOf(d)[i].n = Forwarded(d)[i].n
               /\ EventsOf(d)[i].ev = MessageData(d, subproto, StripSlashes(path),
                                                  Parse(Forwarded(d)[i].orig))

\* C3: an event is on the snoop queue only for a frame whose send to the
\* peer has returned; a frame that failed to decode, or whose send failed
\* because the peer was closed, has no event.
C3_EventOnlyAfterSend ==
    /\ \A i \in DOMAIN emitted :
           \E j \in DOMAIN Forwarded(emitted[i].ev.sender) :
               /\ Forwarded(emitted[i].ev.sender)[j].n = emitted[i].n
               /\ Forwarded(emitted[i].ev.sender)[j].conn = emitted[i].conn
               /\ emitted[i].ev.payload = Parse(Forwarded(emitted[i].ev.sender)[j].orig)
    /\ \A k \in Tasks :
           task[k].exc \in {"JSONDecodeError", "ConnectionClosed"} /\ task[k].n > 0
               => \A i \in DOMAIN emitted :
                      ~(emitted[i].ev.sender = k[2] /\ emitted[i].n = task[k].n)

\* C3 witness: one frame was sent on and has its event, and a later frame of
\* the same origin met a closed peer and has none.
C3_Witness ==
    \E k \in Tasks :
        /\ task[k].exc = "ConnectionClosed" /\ task[k].n > 1
        /\ \E i \in DOMAIN emitted : emitted[i].ev.sender = k[2]

\* C4: when the CSMS side of the current pair is closed while the charge
\* point is connected, the session goes on to a new connection attempt by
\* itself: once every coroutine is suspended, the handler is in the connect
\* iterator, not still waiting in gather for a frame of the charge point.
C4_CsmsCloseStartsReconnect ==
    (ready = <<>> /\ gen > 0 /\ csms[gen] = "closed" /\ ~cpClosed)
        => hpc \in {"connecting", "backoff"}

\* C5: once the charge-point connection is closed, no further connection
\* attempt to the CSMS starts and no pair of forwarding loops starts.  Stated
\* for a connection object that reports `closed`, where the two checks of
\* the handler can see the close.
C5_NothingStartsAfterCpClose ==
    [][(hasClosed /\ cpClosed)
          => /\ ~(hpc = "backoff" /\ hpc' = "connecting")
             /\ ~(hpc # "gather" /\ hpc' = "gather")]_vars

\* C6: a charge point that closes while the session is connecting to a CSMS
\* that stays unreachable leads to the end of the handler (also stated for a
\* connection object that reports `closed`).
C6_CpCloseEndsConnecting ==
    (hasClosed /\ cpClosed /\ hpc \in {"connecting", "backoff"}) ~> (hpc = "done")

\* C7: after the charge point has closed while the session was relaying, the
\* session reaches Closed: the handler has returned, no forwarding loop is
\* running and no CSMS connection is open (also stated for a connection
\* object that reports `closed`).
C7_CpCloseEndsSession ==
    (hasClosed /\ cpClosed /\ hpc = "gather")
        ~> (/\ hpc = "done"
            /\ \A k \in Tasks : ~LoopRunning(k)
            /\ \A g \in Conns : csms[g] # "open")

\* C8: a charge-point connection without a subprotocol is closed at once: no
\* CSMS connection, no forwarding loop, no event, no connection attempt.
C8_NoSubprotocolClosed ==
    subproto = NoProtocol =>
        /\ hpc \in {"handshake", "done"}
        /\ hpc = "done" => cpClosed
        /\ gen = 0 /\ \A g \in Conns : csms[g] = "none"
        /\ \A k \in Tasks : task[k].pc = "none"
        /\ emitted = <<>> /\ snoop_queue = <<>> /\ cpOut = <<>> /\ csmsOut = <<>>

\* C8 witness: the handler has returned for a charge point without
\* subprotocol that had already sent a frame.
C8_Witness == subproto = NoProtocol /\ hpc = "done" /\ cpClosed /\ cpIn # <<>>

\* C9: a loop that received a frame that is not JSON drops the frame and is
\* still running, and its CSMS connection is not closed by the relay.
C9_BadFrameKeepsLoop ==
    \A k \in Tasks :
        task[k].exc = "JSONDecodeError" => LoopRunning(k) /\ csms[k[1]] = "open"

\* C10: an unexpected error raised in the loop reading the charge point ends
\* the session: no CSMS connection attempt follows it.
C10_CpSideErrorEndsSession ==
    \A g \in Conns :
        (task[<<g, "CP">>].pc = "raised" /\ g = gen)
            => hpc \in {"gather", "resumed", "done"}

FanOutAtRest == fwd.pc = "dead" \/ (fwd.pc = "get" /\ snoop_queue = <<>>)

Received(s) == {delivered[s][i].n : i \in DOMAIN delivered[s]}

\* C12: once the fan-out has nothing left to do, every session that is
\* registered and still open has received every event emitted since it
\* registered, whatever the other sessions did (closed, or failed a send)
\* in the meantime.
C12_OpenSessionsReceiveAll ==
    FanOutAtRest =>
        \A s \in Sessions :
            (sconn[s] = "open" /\ spc[s] = "recv")
                => \A n \in (regAt[s] + 1) .. Len(emitted) : n \in Received(s)

\* C13: what each snoop session is sent is a subsequence of the events in
\* the order of their puts (the k-th frame the task takes from the queue is
\* the k-th event put), no event twice, and the text is the one
\* serialisation of that event, the same for every session.
C13_GlobalOrderOneSerialisation ==
    \A s \in Sessions :
        /\ Increasing(delivered[s])
        /\ \A i \in DOMAIN delivered[s] :
               /\ delivered[s][i].n \in DOMAIN emitted
               /\ delivered[s][i].text = Dumps(emitted[delivered[s][i].n].ev)

\* C13 witness: two sessions have each been sent two events of different
\* charge points and directions, put while the task was busy with the first.
C13_Witness ==
    /\ \A s \in Sessions : Len(delivered[s]) = 2
    /\ emitted[1].ev.cp_id # emitted[2].ev.cp_id
    /\ emitted[1].ev.sender # emitted[2].ev.sender
    /\ fwd.n = 2 /\ fwd.at = 2

\* C14: a session whose send failed is out of the registered set at once,
\* is sent no later event and is not retried, and the event at hand still
\* goes to every other registered session of the copy: the task does not
\* leave the iteration with registered sessions unserved.
C14_EvictOnFailureOthersServed ==
    \A s \in Sessions :
        refused[s] # <<>> =>
            /\ s \notin snoop_sockets
            /\ Len(refused[s]) = 1
            /\ \A i \in DOMAIN delivered[s] : delivered[s][i].n < refused[s][1]
            /\ (refused[s][1] = fwd.n /\ fwd.pc \notin {"iter", "send"})
                   => fwd.todo \cap snoop_sockets = {}

\* C15: a snoop session is sent only events that were put on the queue
\* after it registered; an event put before, also one still waiting on the
\* queue at the registration, is never sent to it.
C15_OnlyEventsAfterRegistration ==
    \A s \in Sessions :
        \A i \in DOMAIN delivered[s] : delivered[s][i].n > regAt[s]

\* C16: neither the fan-out (line 48) nor a connection handler (line 63)
\* ever removes a session that is not in the registered set: no remove
\* raises KeyError.
C16_NoRemovalOfAbsentSession ==
    /\ fwd.pc # "dead"
    /\ \A s \in Sessions : spc[s] # "failed"

\* The vendor map the i-th call of filter left.
MapAfter(i) == IF i < Len(filtered) THEN filtered[i + 1].was ELSE manufacturer

\* C17: filter returns no record and leaves the vendor map as it was for an
\* event that is not a Message of the charge point, and for a Message whose
\* payload is not a list of at least 4 elements beginning with 2.
C17_IgnoredEventsYieldNothing ==
    \A i \in DOMAIN filtered :
        LET msg == filtered[i].msg
        IN  (\/ msg.event # "Message"
             \/ msg.sender # "CP"
             \/ msg.payload.t # "list"
             \/ Len(msg.payload.q) < 4
             \/ msg.payload.q[1] # JInt(2))
                => /\ filtered[i].r.exc = ""
                   /\ filtered[i].r.out = <<>>
                   /\ MapAfter(i) = filtered[i].was

\* C17 witness: a CallResult of four elements and a Call of the CSMS, both
\* DataTransfer frames with a vendorId, were filtered and nothing is learned.
C17_Witness ==
    /\ \E i \in DOMAIN filtered : filtered[i].msg.payload = CallResult4
    /\ \E i \in DOMAIN filtered :
           filtered[i].msg.sender = "CSMS" /\ filtered[i].msg.payload = DataTransfer("VendorB")
    /\ manufacturer = <<>>

\* The vendor ids a map holds: the entries line 37 creates with None hold
\* nothing yet.
Learned(man) == [c \in {k \in DOMAIN man : man[k] # JNull} |-> man[c]]

\* C18: what filter returns and the vendor ids it ends with depend on the
\* event and on the vendor ids learned so far only, not on the history that
\* led there: a filter that holds just those vendor ids (and none of the
\* empty entries earlier events of this history created) returns the same
\* for the same event and ends with the same vendor ids.
C18_SameVendorsSameEventSameResult ==
    \A i \in DOMAIN filtered :
        LET other == filter(Learned(filtered[i].was), filtered[i].msg)
        IN  /\ other.r = filtered[i].r
            /\ Learned(other.man) = Learned(MapAfter(i))

\* C18 witness: a Call with a vendor id reached a filter whose history had
\* left an empty entry for that charge point, and records were emitted.
C18_Witness ==
    /\ \E i \in DOMAIN filtered :
           /\ filtered[i].msg.cp_id \in DOMAIN filtered[i].was
           /\ filtered[i].was[filtered[i].msg.cp_id] = JNull
           /\ filtered[i].msg.cp_id \in DOMAIN Learned(MapAfter(i))
    /\ \E i \in DOMAIN filtered : filtered[i].r.out # <<>>

\* The i-th event is a Call of charge point cp: a Message of sender CP whose
\* payload is a list of at least 4 elements beginning with 2.
IsCallOf(cp, i) ==
    LET msg == filtered[i].msg
    IN  /\ msg.event = "Message" /\ msg.sender = "CP" /\ msg.cp_id = cp
        /\ msg.payload.t = "list" /\ Len(msg.payload.q) >= 4
        /\ msg.payload.q[1] = JInt(2)

\* The i-th event is a DataTransfer Call of cp that carries a vendorId, and
\* that vendorId.
CarriesVendor(cp, i) ==
    /\ IsCallOf(cp, i)
    /\ filtered[i].msg.payload.q[3] = JStr("DataTransfer")
    /\ filtered[i].msg.payload.q[4].t = "dict"
    /\ "vendorId" \in DOMAIN filtered[i].msg.payload.q[4].d

VendorOf(i) == filtered[i].msg.payload.q[4].d["vendorId"]

\* From call f on, the map holds vendor for cp and every record emitted for
\* cp carries it.
KeptFrom(cp, f, vendor) ==
    \A k \in f .. Len(filtered) :
        /\ cp \in DOMAIN MapAfter(k) /\ MapAfter(k)[cp] = vendor
        /\ \A n \in DOMAIN filtered[k].r.out :
               filtered[k].r.out[n].cp_id = cp => filtered[k].r.out[n].manufacturer = vendor

\* C19 as claimed: the vendor id of the first DataTransfer Call of a charge
\* point that carries a vendorId is in the map after every later event, and
\* in every record emitted for that charge point.
C19_FirstVendorKept ==
    \A cp \in FilterCpIds : \A f \in DOMAIN filtered :
        (CarriesVendor(cp, f) /\ \A j \in 1 .. (f - 1) : ~CarriesVendor(cp, j))
            => KeptFrom(cp, f, VendorOf(f))

\* C19 as amended: the same for the first DataTransfer Call whose vendorId
\* is not empty (an empty one is replaced by the next).
C19_FirstNonEmptyVendorKept ==
    \A cp \in FilterCpIds : \A f \in DOMAIN filtered :
        (/\ CarriesVendor(cp, f) /\ Truthy(VendorOf(f))
         /\ \A j \in 1 .. (f - 1) : ~(CarriesVendor(cp, j) /\ Truthy(VendorOf(j))))
            => KeptFrom(cp, f, VendorOf(f))

\* C19 witness: a vendor id was learned, a DataTransfer Call of the same
\* charge point with another vendor id followed, and a record emitted after
\* it carries the first one.
C19_Witness ==
    /\ Len(filtered) = 3
    /\ CarriesVendor("s/CP7", 1) /\ VendorOf(1) = JStr("VendorA")
    /\ CarriesVendor("s/CP7", 2) /\ VendorOf(2) = JStr("VendorB")
    /\ Len(filtered[3].r.out) = 1
    /\ filtered[3].r.out[1].manufacturer = JStr("VendorA")

\* Every record the filter has returned.
Records == UNION {{filtered[i].r.out[n] : n \in DOMAIN filtered[i].r.out} : i \in DOMAIN filtered}

\* C20: two emitted records have the same unique_id exactly when they are of
\* the same charge point and the same measurement point and kind, which the
\* topic names (<connector or EVSE>/<location>/<measurand>, <id>/status or
\* heartbeat): no two charge points and no two topics share a unique_id.
C20_UniqueIdCollisionFree ==
    \A r1, r2 \in Records :
        (r1.unique_id = r2.unique_id) <=> (r1.cp_id = r2.cp_id /\ r1.topic = r2.topic)

\* The i-th event is a Call of the given action: a Message of sender CP whose
\* payload is a list of at least 4 elements beginning with 2 and naming it.
IsAction(i, action) ==
    /\ IsCallOf(filtered[i].msg.cp_id, i)
    /\ filtered[i].msg.payload.q[3] = JStr(action)

\* C21: for a Heartbeat Call of a charge point, whatever its protocol id,
\* filter returns exactly one record; its device class is timestamp and its
\* value the timestamp of the event.
C21_HeartbeatOneTimestampRecord ==
    \A i \in DOMAIN filtered :
        IsAction(i, "Heartbeat")
            => /\ filtered[i].r.exc = ""
               /\ filtered[i].r.ret = "list"
               /\ Len(filtered[i].r.out) = 1
               /\ filtered[i].r.out[1].device_class = "timestamp"
               /\ filtered[i].r.out[1].value = JStr(filtered[i].msg.timestamp)

\* C21 witness: Heartbeat Calls with no protocol id, with one that is no OCPP
\* version and with 2.0.1 were filtered, and each gave a record.
C21_Witness ==
    /\ Len(filtered) = 3
    /\ \A i \in 1 .. 3 : IsAction(i, "Heartbeat") /\ Len(filtered[i].r.out) = 1
    /\ {filtered[i].msg.protocol : i \in 1 .. 3} = {NoProtocol, "foo", "ocpp2.0.1"}

\* C22: for a StatusNotification Call whose payload is an object, filter
\* returns exactly one record.  With the protocol id ocpp1.6, in either case
\* of the prefix or without it, the topic is <connectorId>/status and the
\* value the payload's status; with any other protocol id, or none, the
\* topic is <evseId>/status and the value the payload's connectorStatus.
C22_StatusDispatchedOnBareVersion ==
    \A i \in DOMAIN filtered :
        (IsAction(i, "StatusNotification") /\ filtered[i].msg.payload.q[4].t = "dict")
            => LET payload == filtered[i].msg.payload.q[4]
                   is16 == filtered[i].msg.protocol \in {"ocpp1.6", "OCPP1.6", "1.6"}
                   key == IF is16 THEN "connectorId" ELSE "evseId"
                   field == IF is16 THEN "status" ELSE "connectorStatus"
               IN  /\ filtered[i].r.exc = ""
                   /\ Len(filtered[i].r.out) = 1
                   /\ filtered[i].r.out[1].topic = Fmt(Get(payload, key, JNull)) \o "/status"
                   /\ filtered[i].r.out[1].value = Get(payload, field, JNull)

\* C22 witness: StatusNotification Calls with the protocol ids OCPP1.6, 1.6
\* and none were filtered; the first two gave the status of connector 1, the
\* last the connectorStatus of EVSE 2.
C22_Witness ==
    /\ Len(filtered) = 3
    /\ \A i \in 1 .. 3 : IsAction(i, "StatusNotification") /\ Len(filtered[i].r.out) = 1
    /\ filtered[1].msg.protocol = "OCPP1.6" /\ filtered[1].r.out[1].topic = "1/status"
    /\ filtered[2].msg.protocol = "1.6" /\ filtered[2].r.out[1].value = JStr("Charging")
    /\ filtered[3].msg.protocol = NoProtocol /\ filtered[3].r.out[1].topic = "2/status"
    /\ filtered[3].r.out[1].value = JStr("Occupied")

\* The payload of a MeterValues Call has the shape the action defines: an
\* object whose meterValue is a list of objects, the sampledValue of each a
\* list of objects.
MeterShaped(payload) ==
    /\ payload.t = "dict"
    /\ Get(payload, "meterValue", JList(<<>>)).t = "list"
    /\ \A b \in DOMAIN Get(payload, "meterValue", JList(<<>>)).q :
           LET mv == Get(payload, "meterValue", JList(<<>>)).q[b]
           IN  /\ mv.t = "dict"
               /\ Get(mv, "sampledValue", JList(<<>>)).t = "list"
               /\ \A n \in DOMAIN Get(mv, "sampledValue", JList(<<>>)).q :
                      /\ Get(mv, "sampledValue", JList(<<>>)).q[n].t = "dict"
                      /\ Get(Get(mv, "sampledValue", JList(<<>>)).q[n],
                             "unitOfMeasure", JDict(<<>>)).t = "dict"

\* The sampled values of a payload of that shape, block after block.
RECURSIVE Flat(_)
Flat(mvs) ==
    IF mvs = <<>> THEN <<>>
    ELSE Get(Head(mvs), "sampledValue", JList(<<>>)).q \o Flat(Tail(mvs))

SamplesOf(payload) == Flat(Get(payload, "meterValue", JList(<<>>)).q)

\* The device class the measurand of a sampled value stands for, "energy"
\* when the sampled value has no measurand (or one that is not a string),
\* and "" when the measurand is a name of no such class.
ClassOf(sv) ==
    LET x == Get(sv, "measurand", JNull)
    IN  CASE x.t # "str" -> "energy"
          [] x.s = "Voltage" -> "voltage"
          [] x.s = "Current" -> "current"
          [] x.s = "Power.Active.Import" -> "power"
          [] x.s = "Energy.Active.Import.Register" -> "energy"
          [] OTHER -> ""

\* out holds one record for each of the sampled values svs, in their order,
\* with the value of the sampled value and the device class given by class.
OneRecordEach(out, svs, class(_)) ==
    /\ Len(out) = Len(svs)
    /\ \A n \in DOMAIN svs :
           /\ out[n].value = Get(svs[n], "value", JNull)
           /\ out[n].device_class = class(svs[n])

\* C23 as claimed: for a MeterValues Call filter returns one record for each
\* sampled value of each block, in payload order; a sampled value whose
\* measurand is missing or is no current, energy, power or voltage is kept
\* as an energy record.
C23_EverySampleEmitted ==
    \A i \in DOMAIN filtered :
        (IsAction(i, "MeterValues") /\ MeterShaped(filtered[i].msg.payload.q[4]))
            => /\ filtered[i].r.exc = ""
               /\ LET energyIfNone(sv) == IF ClassOf(sv) = "" THEN "energy" ELSE ClassOf(sv)
                  IN  OneRecordEach(filtered[i].r.out,
                                    SamplesOf(filtered[i].msg.payload.q[4]), energyIfNone)

\* C23 as amended: one record, in payload order, for each sampled value
\* whose measurand is a current, energy, power or voltage or is missing (an
\* energy record then); a sampled value whose measurand is another name
\* gives no record.
C23_ClassifiableOrMissingEmitted ==
    \A i \in DOMAIN filtered :
        (IsAction(i, "MeterValues") /\ MeterShaped(filtered[i].msg.payload.q[4]))
            => /\ filtered[i].r.exc = ""
               /\ LET kept(sv) == ClassOf(sv) # ""
                  IN  OneRecordEach(filtered[i].r.out,
                                    SelectSeq(SamplesOf(filtered[i].msg.payload.q[4]), kept),
                                    ClassOf)

\* C23 witness: the MeterValues Call of two blocks was filtered: the Voltage
\* of the first block, then the sampled value without measurand and the
\* Power of the second were emitted, the Temperature was not.
C23_Witness ==
    \E i \in DOMAIN filtered :
        /\ IsAction(i, "MeterValues")
        /\ filtered[i].msg.payload.q[4] = MeterPayloadMixed
        /\ Len(filtered[i].r.out) = 3
        /\ filtered[i].r.out[1].device_class = "voltage"
        /\ filtered[i].r.out[2].device_class = "energy"
        /\ filtered[i].r.out[2].topic = "1/Outlet/Energy-Active-Import-Register"
        /\ filtered[i].r.out[3].value = JStr("11")

\* C30: filter raises nothing for a Call of at least 4 elements of a charge
\* point, whatever the types of its action and payload: it returns None or a
\* list, and the next event is filtered.
C30_OddShapesNeverRaise ==
    \A i \in DOMAIN filtered :
        IsCallOf(filtered[i].msg.cp_id, i)
            => /\ filtered[i].r.exc = ""
               /\ ENABLED ShapeNext \/ Len(filtered) >= MaxCalls

\* A CONNACK that accepted the connection has arrived and its callback has
\* run to its end.
ConnectedOnce ==
    \E k \in DOMAIN notices :
        /\ notices[k].kind = "connack" /\ notices[k].rc = 0
        /\ (k < Len(notices) \/ on_connect.pc = "idle")

\* C24: until the broker connection has been established once, run is in
\* its waiting loop, nothing has been published, and the queue holds every
\* record given to publish_data, in the order given.
C24_NothingBeforeFirstConnection ==
    ~ConnectedOnce
        => /\ run.pc = "wait"
           /\ published = <<>>
           /\ published_discoveries = <<>>
           /\ queue = enqueued

\* C24 witness: two records are queued, the broker has refused a connection
\* and a connection attempt has failed, and no connection was established.
C24_Witness ==
    /\ ~ConnectedOnce
    /\ Len(queue) = 2
    /\ Len(notices) = 2
    /\ broker_connection_failed
    /\ exit_task

\* What run itself has published, in order.
ByRun(p) == p.by = "run"
RunLog == SelectSeq(published, ByRun)

\* C25: run publishes the discovery document of a topic once: for the first
\* record taken from the queue that has the topic, and before the state of
\* that record; a later record of the same unique_id gives a state only.
C25_DiscoveryOncePerTopic ==
    /\ \A i, j \in DOMAIN RunLog :
           (RunLog[i].kind = "discovery" /\ RunLog[j].kind = "discovery"
                /\ RunLog[i].topic = RunLog[j].topic) => i = j
    /\ \A j \in DOMAIN RunLog :
           RunLog[j].kind = "discovery"
               => /\ RunLog[j].topic = discovery_topic(enqueued[RunLog[j].n])
                  /\ \A m \in 1 .. (RunLog[j].n - 1) :
                         enqueued[m].unique_id # enqueued[RunLog[j].n].unique_id
                  /\ \A i \in 1 .. (j - 1) : RunLog[i].n < RunLog[j].n
                  /\ j < Len(RunLog)
                         => RunLog[j + 1].kind = "state" /\ RunLog[j + 1].n = RunLog[j].n
    /\ \A i \in DOMAIN RunLog :
           RunLog[i].kind = "state"
               => /\ RunLog[i].topic = mqtt_state_topic(enqueued[RunLog[i].n])
                  /\ \E j \in 1 .. (i - 1) :
                         /\ RunLog[j].kind = "discovery"
                         /\ RunLog[j].topic = discovery_topic(enqueued[RunLog[i].n])
    /\ \A n \in 1 .. Dequeued :
           \E j \in DOMAIN RunLog :
               RunLog[j].kind = "discovery" /\ RunLog[j].topic = discovery_topic(enqueued[n])

\* C25 witness: the same status record was given twice and both were
\* published: one discovery document and two states.
C25_Witness ==
    /\ Len(enqueued) = 2
    /\ enqueued[1] = enqueued[2]
    /\ enqueued[1].topic = "1/status"
    /\ Len(RunLog) = 3
    /\ RunLog[1].kind = "discovery" /\ RunLog[2].kind = "state" /\ RunLog[3].kind = "state"
    /\ RunLog[3].n = 2

\* The k-th notice is a CONNACK that re-established the connection: it was
\* accepted, and an earlier one had been.
Reconnection(k) ==
    /\ notices[k].kind = "connack" /\ notices[k].rc = 0
    /\ \E e \in 1 .. (k - 1) : notices[e].kind = "connack" /\ notices[e].rc = 0

\* The callback of the k-th notice has ended.
CallbackEnded(k) == k < Len(notices) \/ on_connect.pc # "iter"

\* C26: a reconnection that found N cached discovery topics is followed by
\* N publications of the callback, one per cached topic, before anything
\* else is published; when the callback has ended it has published N.
C26_ReplayBeforeNextState ==
    \A k \in DOMAIN notices :
        Reconnection(k)
            => /\ \A i \in 1 .. notices[k].n :
                      (notices[k].at + i) \in DOMAIN published
                          => /\ published[notices[k].at + i].by = "on_connect"
                             /\ published[notices[k].at + i].n = k
                             /\ published[notices[k].at + i].kind = "discovery"
               /\ CallbackEnded(k)
                      => Cardinality({i \in DOMAIN published :
                             published[i].by = "on_connect" /\ published[i].n = k})
                         = notices[k].n

\* C29: the callback never iterates a cache that run has changed since the
\* iteration began, and its iteration never fails.
C29_CacheNotChangedWhileIterated ==
    /\ on_connect.pc = "iter" => Len(published_discoveries) = on_connect.used
    /\ on_connect.pc # "raised"

\* The states run has published, in order.
IsState(p) == p.by = "run" /\ p.kind = "state"
StateLog == SelectSeq(published, IsState)

\* run has left its loop and no broker failure was reported.
CleanlyLeft == run.pc \in {"break", "returned"} /\ ~broker_connection_failed

\* C27: when run has left its loop without a broker failure, stop() has been
\* called, the queue is empty and the state of every record given to
\* publish_data has been published, in the order given; and a pass of the
\* loop that ends in a timeout takes nothing from the queue and publishes
\* nothing.
C27_CleanExitDrainsQueue ==
    /\ [](CleanlyLeft
            => /\ feeder = "done"
               /\ queue = <<>>
               /\ Len(StateLog) = Len(enqueued)
               /\ \A i \in DOMAIN StateLog :
                      /\ StateLog[i].n = i
                      /\ StateLog[i].topic = mqtt_state_topic(enqueued[i])
                      /\ StateLog[i].payload = [value |-> enqueued[i].value])
    /\ [][RunTimeout => UNCHANGED <<queue, published, published_discoveries>>]_vars

\* C27 witness: two records were given, stop() was called while they were
\* queued, and run has returned after publishing both.
C27_Witness ==
    /\ run.pc = "returned"
    /\ ~broker_connection_failed
    /\ Len(enqueued) = 2
    /\ enqueued[1].unique_id # enqueued[2].unique_id
    /\ Len(StateLog) = 2
    /\ Len(published) = 4

\* The broker has reported a hard connection failure: a CONNACK that refused
\* the connection, or a connect-failure notification.
HardFailureReported ==
    \E k \in DOMAIN notices :
        \/ notices[k].kind = "connack" /\ notices[k].rc # 0
        \/ notices[k].kind = "connect_fail"

\* C28: after a hard connection failure, at any time (the first connection
\* attempt included), run eventually ends by raising.
C28_HardFailureRaises == HardFailureReported ~> (run.pc = "raised")

\* Loop k read frame n of its source and decoded it, and its send of the
\* frame raised ConnectionClosed: the loop logged "connection closed" and
\* left.
SendFoundClosed(k) ==
    /\ task[k].pc = "ended"
    /\ task[k].exc = "ConnectionClosed"
    /\ task[k].n > 0

\* C31: while the session of the charge point is open, every frame a loop
\* read from the charge point and decoded has been written to a CSMS
\* connection: if the connection of that loop had closed, then to the
\* connection of the reconnect, at the latest when the loop of that
\* connection has nothing left to read and waits for the next frame.
C31_NoFrameLostOnCsmsClose ==
    (~cpClosed /\ hpc # "done")
        => \A g \in Conns :
               (/\ SendFoundClosed(<<g, "CP">>)
                /\ gen > g /\ csms[gen] = "open"
                /\ task[<<gen, "CP">>].pc = "recv" /\ cpIn = <<>>)
                   => \E i \in DOMAIN csmsOut : csmsOut[i].n = task[<<g, "CP">>].n

\* C33: in each direction at most one forwarding loop of the session is
\* active (started and not yet ended), so a pair of loops is started only
\* when both loops of the pair before it have ended, and no loop calls
\* recv() on the charge-point connection while another one is in it.
C33_OneLoopPerDirection ==
    /\ \A d \in Dirs : Cardinality({g \in Conns : LoopRunning(<<g, d>>)}) <= 1
    /\ \A k \in Tasks : task[k].exc # "ConcurrencyError"

\* C32: _forward_messages never stops: whatever the snoop clients do, every
\* event put on the queue is eventually taken from it (the n-th event put is
\* the n-th taken).
C32_EveryEventEventuallyDequeued ==
    \A n \in 1 .. MaxEvents : (Len(emitted) >= n) ~> (fwd.n >= n)

====
